---- MODULE Spec2Model ----
(***************************************************************************)
(* A model of geogee/geogee2.py: the shapefile-to-GeoJSON helper           *)
(* shp_to_geojson and the layer methods of the Map class.                  *)
(*                                                                         *)
(* Python values (the dict returned by the shapefile reader, the text      *)
(* json.dump writes) are modelled as token sequences: "{" "}" delimit a    *)
(* dict, "[" "]" a list, "(" ")" a tuple; every other token is a key or a  *)
(* scalar.  JSON text has no tuples and spells None/True as null/true, so  *)
(* writing and reading back is not the identity on such values.            *)
(***************************************************************************)
EXTENDS Integers, Sequences, FiniteSets, TLC

VARIABLES
    fs,             \* the file system: a node for every path of Paths
    lastCall,       \* the latest shp_to_geojson call: arguments, outcome, effect
    results,        \* what the successful shp_to_geojson calls returned
    kwargs,         \* the keyword arguments the Map was constructed with
    layers,         \* the Map's layers, in order
    ctorLayers,     \* the layers the Map had when its constructor returned
    calls,          \* the calls made of the Map's methods
    okCalls,        \* the add_* calls that returned without raising
    unnamed,        \* positions in layers of the layers added without a name
    mapIdRequests,  \* getMapId requests made of the imagery service
    lastMapCall     \* the latest call of a Map method

vars == <<fs, lastCall, results, kwargs, layers, ctorLayers, calls, okCalls,
          unnamed, mapIdRequests, lastMapCall>>

convVars == <<fs, lastCall, results>>
mapVars ==
    <<kwargs, layers, ctorLayers, calls, okCalls, unnamed, mapIdRequests, lastMapCall>>

(***************************************************************************)
(* Bounds of the model.                                                    *)
(***************************************************************************)
\* Largest number of records of the shapefile whose content is left open.
MaxRecords == 1
\* Largest number of calls made of the methods of one Map.
MaxCalls == 2

(***************************************************************************)
(* The file system: a node per absolute path.                              *)
(***************************************************************************)
AbsentNode == [kind |-> "absent", body |-> <<>>]
DirNode == [kind |-> "dir", body |-> <<>>]
ShpNode(records) == [kind |-> "shp", body |-> records]
TextNode(text) == [kind |-> "text", body |-> text]

\* The process's current working directory, which os.path.abspath joins to.
cwd == <<"w">>

Paths ==
    { <<"w">>,
      <<"w", "a.shp">>, <<"w", "b.shp">>, <<"w", "d.shp">>,
      <<"w", "missing.shp">>, <<"w", "o.json">>,
      <<"w", "b.shp", "o.json">>,
      <<"w", "x">>, <<"w", "x", "y">>, <<"w", "x", "y", "o.json">> }

\* os.path.abspath: an absolute path as it is, a relative one under cwd.
Abspath(p) == IF p.abs THEN p.comps ELSE cwd \o p.comps

\* os.path.dirname of an absolute path.
Dirname(p) == SubSeq(p, 1, Len(p) - 1)

NodeAt(f, p) ==
    IF p = <<>> THEN DirNode
    ELSE IF p \in DOMAIN f THEN f[p] ELSE AbsentNode

\* os.path.exists: true of a file and of a directory alike.
Exists(f, p) == NodeAt(f, p).kind # "absent"

\* os.makedirs(d, exist_ok=True): creates the missing directories from the
\* top down; fails, creating nothing, when a component is a file.
RECURSIVE MakeDirs(_, _)
MakeDirs(f, d) ==
    IF NodeAt(f, d).kind = "dir" THEN [ok |-> TRUE, fs |-> f]
    ELSE IF NodeAt(f, d).kind # "absent" THEN [ok |-> FALSE, fs |-> f]
    ELSE LET up == MakeDirs(f, Dirname(d))
         IN  IF ~up.ok THEN up
             ELSE [ok |-> TRUE, fs |-> [up.fs EXCEPT ![d] = DirNode]]

\* The body a file has right after open(path, mode): "w" truncates.
OpenedBodyAppend(node) == node.body
OpenedBody(node) == <<>>

(***************************************************************************)
(* The shapefile reader and its __geo_interface__.                         *)
(***************************************************************************)
RecordKinds == {"null", "pt", "date"}

\* The Feature of one record: a null shape has geometry None, a point has
\* its coordinates in a tuple, a date attribute is a datetime.date object.
Feature(r) ==
    IF r = "pt"
    THEN <<"{", "type", "Feature", "properties", "{", "}", "geometry",
           "{", "type", "Point", "coordinates", "(", "1.0", "2.0", ")", "}", "}">>
    ELSE IF r = "date"
    THEN <<"{", "type", "Feature", "properties", "{", "when", "<date>", "}",
           "geometry", "None", "}">>
    ELSE <<"{", "type", "Feature", "properties", "{", "}", "geometry", "None", "}">>

RECURSIVE Features(_)
Features(records) ==
    IF records = <<>> THEN <<>>
    ELSE Feature(Head(records)) \o Features(Tail(records))

\* Reader.__geo_interface__: the features in record order, then the bbox.
GeoInterface(records) ==
    <<"{", "type", "FeatureCollection", "features", "[">>
        \o Features(records)
        \o <<"]", "bbox", "[", "0.0", "0.0", "9.0", "9.0", "]", "}">>

\* shapefile.Reader(path).__geo_interface__: fails on what is no shapefile.
Reader(f, p) ==
    IF NodeAt(f, p).kind = "shp"
    THEN [ok |-> TRUE, geo |-> GeoInterface(NodeAt(f, p).body)]
    ELSE [ok |-> FALSE, geo |-> <<>>]

(***************************************************************************)
(* json.dump and json.load on token sequences.                             *)
(***************************************************************************)
JsonToken(t) ==
    IF t = "(" THEN "["
    ELSE IF t = ")" THEN "]"
    ELSE IF t = "None" THEN "null"
    ELSE IF t = "True" THEN "true"
    ELSE t

PyToken(t) ==
    IF t = "null" THEN "None"
    ELSE IF t = "true" THEN "True"
    ELSE t

Unserializable == {"<date>"}

\* Index of the first token json cannot encode, 0 when there is none.
FirstBad(v) ==
    LET bad == {i \in 1..Len(v) : v[i] \in Unserializable}
    IN  IF bad = {} THEN 0 ELSE CHOOSE i \in bad : \A j \in bad : i <= j

\* str(obj): the Python spelling, tuples and None kept as they are.
SerializeRepr(v) == [ok |-> TRUE, text |-> v]

\* json.dump(obj, f): the chunks are written as they are encoded, so a
\* value it cannot encode leaves the text written before it.
Serialize(v) ==
    LET n == FirstBad(v)
        m == IF n = 0 THEN Len(v) ELSE n - 1
    IN  [ok |-> n = 0, text |-> [i \in 1..m |-> JsonToken(v[i])]]

Count(s, t) == Cardinality({i \in 1..Len(s) : s[i] = t})

WellFormed(text) ==
    /\ Len(text) > 0
    /\ \A i \in 1..Len(text) : text[i] \notin {"(", ")", "None", "True", "<date>"}
    /\ Count(text, "{") = Count(text, "}")
    /\ Count(text, "[") = Count(text, "]")

\* json.load(f): arrays come back as lists, null as None.
Parse(node) ==
    IF node.kind = "text" /\ WellFormed(node.body)
    THEN [ok |-> TRUE, value |-> [i \in 1..Len(node.body) |-> PyToken(node.body[i])]]
    ELSE [ok |-> FALSE, value |-> <<>>]

\* A Python value with every tuple turned into a list.
AsLists(v) ==
    [i \in 1..Len(v) |->
        IF v[i] = "(" THEN "[" ELSE IF v[i] = ")" THEN "]" ELSE v[i]]

(***************************************************************************)
(* shp_to_geojson(in_shp, out_geojson=None)                                *)
(***************************************************************************)
NoOut == [none |-> TRUE, abs |-> FALSE, comps |-> <<>>]
Rel(comps) == [none |-> FALSE, abs |-> FALSE, comps |-> comps]
Abs(comps) == [none |-> FALSE, abs |-> TRUE, comps |-> comps]

Raise(exc, f, read) == [outcome |-> exc, ret |-> <<>>, fs |-> f, reader |-> read]

\* What the call returns: the reader's value, written or not.
ReturnedParsed(geo, written) == IF written THEN AsLists(geo) ELSE geo
Returned(geo, written) == geo

\* The test made of the input path before the reader is called.
InputFound(f, p) == Exists(f, p)

WriteGeojson(f, geo, out_geojson) ==
    LET out == Abspath(out_geojson)
        md == MakeDirs(f, Dirname(out))
    IN  IF ~md.ok THEN Raise("OSError", md.fs, TRUE)
        ELSE IF NodeAt(md.fs, out).kind = "dir" THEN Raise("OSError", md.fs, TRUE)
        ELSE LET s == Serialize(geo)
                 opened == OpenedBody(NodeAt(md.fs, out))
                 after == [md.fs EXCEPT ![out] = TextNode(opened \o s.text)]
             IN  IF s.ok
                 THEN [outcome |-> "ok", ret |-> Returned(geo, TRUE),
                       fs |-> after, reader |-> TRUE]
                 ELSE Raise("TypeError", after, TRUE)

\* A variant that writes beside the working directory's o.json when no
\* output path is given.
shp_to_geojson_default_out(f, in_shp, out_geojson) ==
    LET path == Abspath(in_shp)
    IN  IF ~InputFound(f, path) THEN Raise("FileNotFoundError", f, FALSE)
        ELSE LET sf == Reader(f, path)
             IN  IF ~sf.ok THEN Raise("ShapefileException", f, TRUE)
                 ELSE WriteGeojson(f, sf.geo,
                                   IF out_geojson.none THEN Rel(<<"o.json">>)
                                   ELSE out_geojson)

shp_to_geojson(f, in_shp, out_geojson) ==
    LET path == Abspath(in_shp)
    IN  IF ~InputFound(f, path) THEN Raise("FileNotFoundError", f, FALSE)
        ELSE LET sf == Reader(f, path)
             IN  IF ~sf.ok THEN Raise("ShapefileException", f, TRUE)
                 ELSE IF out_geojson.none
                 THEN [outcome |-> "ok", ret |-> Returned(sf.geo, FALSE),
                       fs |-> f, reader |-> TRUE]
                 ELSE WriteGeojson(f, sf.geo, out_geojson)


(***************************************************************************)
(* The Map class.  A layer is what the widget was handed: its kind, name,  *)
(* style (a set of <<property, value>> pairs) and data.                    *)
(***************************************************************************)
Layer(kind, name, style, data) ==
    [kind |-> kind, name |-> name, style |-> style, data |-> data]

\* The basemap ipyleaflet.Map installs when the caller passes no layers.
DefaultBasemap ==
    Layer("tile", "OpenStreetMap.Mapnik", {}, <<"https://tile.openstreetmap.org">>)

\* self.add_layer(layer): the layer goes to the end of the map's layers.
AddLayerReplace(ls, layer) ==
    IF ls = <<>> THEN <<layer>> ELSE [ls EXCEPT ![Len(ls)] = layer]
AddLayer(ls, layer) == Append(ls, layer)

\* super().__init__(**kwargs): the caller's layers, else the default basemap.
SuperInit(kw) == IF kw.layers.given THEN kw.layers.val ELSE <<DefaultBasemap>>

GoogleLayer(kw) ==
    IF kw.google_map = "HYBRID"
    THEN Layer("tile", "Google Satellite", {},
               <<"https://mt1.google.com/vt/lyrs=y&x={x}&y={y}&z={z}", "Google">>)
    ELSE Layer("tile", "Google Maps", {},
               <<"https://mt1.google.com/vt/lyrs=m&x={x}&y={y}&z={z}", "Google">>)

\* Map.__init__(**kwargs): the layers of the map once constructed.
MapInit(kw) == AddLayer(SuperInit(kw), GoogleLayer(kw))

NoStyle == [none |-> TRUE, val |-> {}]
Style(val) == [none |-> FALSE, val |-> val]

DefaultStyle ==
    { <<"stroke", "True">>, <<"color", "#000000">>, <<"weight", "2">>,
      <<"opacity", "1">>, <<"fill", "True">>, <<"fillColor", "#0000ff">>,
      <<"fillOpacity", "0.4">> }

\* The default with the caller's properties laid over it.
StyleForMerged(style) ==
    IF style.none THEN DefaultStyle
    ELSE {p \in DefaultStyle : \A q \in style.val : q[1] # p[1]} \cup style.val

\* The style handed to ipyleaflet.GeoJSON.
StyleFor(style) == IF style.none THEN DefaultStyle ELSE style.val

\* random_string(): a string of a fixed length, drawn at random.
RandomStrings == {"aaa", "aab"}

\* The name of the layer: a generated one for the sentinel "Untitled".
LayerNameAsGiven(layer_name, rnd) == layer_name
LayerName(layer_name, rnd) ==
    IF layer_name = "Untitled" THEN "Untitled_" \o rnd ELSE layer_name

PathArg(p) == [t |-> "str", path |-> p, data |-> <<>>]
DictArg(d) == [t |-> "dict", path |-> NoOut, data |-> d]
OtherArg == [t |-> "other", path |-> NoOut, data |-> <<>>]

MapRaise(exc, ls) == [outcome |-> exc, layers |-> ls, name |-> ""]

\* The data of the layer: a str is a path to load, a dict is the data.
LoadGeojson(f, in_geojson) ==
    IF in_geojson.t = "str"
    THEN IF ~Exists(f, Abspath(in_geojson.path))
         THEN [outcome |-> "FileNotFoundError", data |-> <<>>]
         ELSE IF NodeAt(f, Abspath(in_geojson.path)).kind = "dir"
         THEN [outcome |-> "OSError", data |-> <<>>]
         ELSE LET loaded == Parse(NodeAt(f, Abspath(in_geojson.path)))
              IN  IF loaded.ok THEN [outcome |-> "ok", data |-> loaded.value]
                  ELSE [outcome |-> "ValueError", data |-> <<>>]
    ELSE IF in_geojson.t = "dict" THEN [outcome |-> "ok", data |-> in_geojson.data]
    ELSE [outcome |-> "TypeError", data |-> <<>>]

\* A variant that adds the layer first and tests its argument after.
add_geojson_adds_first(f, ls, in_geojson, style, layer_name, rnd) ==
    LET name == LayerName(layer_name, rnd)
        ld == LoadGeojson(f, in_geojson)
    IN  [outcome |-> ld.outcome,
         layers |-> AddLayer(ls, Layer("geojson", name, StyleFor(style), ld.data)),
         name |-> name]

\* Map.add_geojson(in_geojson, style=None, layer_name="Untitled"); rnd is
\* what random_string() returns.
add_geojson(f, ls, in_geojson, style, layer_name, rnd) ==
    LET name == LayerName(layer_name, rnd)
        ld == LoadGeojson(f, in_geojson)
    IN  IF ld.outcome # "ok" THEN MapRaise(ld.outcome, ls)
        ELSE [outcome |-> "ok",
              layers |-> AddLayer(ls, Layer("geojson", name, StyleFor(style), ld.data)),
              name |-> name]

\* Map.add_shapefile(in_shp, style=None, layer_name="Untitled")
add_shapefile(f, ls, in_shp, style, layer_name, rnd) ==
    LET conv == shp_to_geojson(f, in_shp, NoOut)
    IN  IF conv.outcome # "ok" THEN MapRaise(conv.outcome, ls)
        ELSE add_geojson(f, ls, DictArg(conv.ret), style, layer_name, rnd)

EeTypes == {"Image", "ImageCollection", "Feature", "FeatureCollection", "Geometry"}
EeObjects == EeTypes \cup {"str"}

EeRaise(exc, req) == [outcome |-> exc, layer |-> DefaultBasemap, requests |-> req]

\* A variant that asks the service for the map id before the type test.
ee_tile_layer_late(ee_object, name, remote, req) ==
    IF ee_object \notin EeTypes THEN EeRaise("AttributeError", req + 1)
    ELSE IF remote # "ok" THEN EeRaise("EEException", req + 1)
    ELSE [outcome |-> "ok",
          layer |-> Layer("tile", name, {},
                          <<"ee-tiles", ee_object, "Google Earth Engine">>),
          requests |-> req + 1]

\* Map.ee_tile_layer(ee_object, vis_params, name, shown, opacity); remote is
\* the answer of getMapId, req the requests made of the service so far.
ee_tile_layer(ee_object, name, remote, req) ==
    IF ee_object \notin EeTypes THEN EeRaise("AttributeError", req)
    ELSE LET obj == IF ee_object = "ImageCollection" THEN "Image" ELSE ee_object
         IN  IF remote # "ok" THEN EeRaise("EEException", req + 1)
             ELSE [outcome |-> "ok",
                   layer |-> Layer("tile", name, {},
                                   <<"ee-tiles", obj, "Google Earth Engine">>),
                   requests |-> req + 1]

\* Map.add_ee_layer(ee_object, vis_params, name, shown, opacity), and addLayer.
add_ee_layer(ls, ee_object, name, remote, req) ==
    LET t == ee_tile_layer(ee_object, name, remote, req)
    IN  [outcome |-> t.outcome,
         layers |-> IF t.outcome = "ok" THEN AddLayer(ls, t.layer) ELSE ls,
         requests |-> t.requests]


(***************************************************************************)
(* Initial states.                                                         *)
(***************************************************************************)
RECURSIVE SeqsUpTo(_, _)
SeqsUpTo(S, n) ==
    IF n = 0 THEN {<<>>}
    ELSE LET shorter == SeqsUpTo(S, n - 1)
         IN  shorter \cup {Append(q, x) : q \in shorter, x \in S}

Datasets == SeqsUpTo(RecordKinds, MaxRecords)

EmptyFs == [p \in Paths |-> AbsentNode]

\* A directory w holding two shapefiles, a directory named d.shp and,
\* perhaps, an earlier o.json.
BaseFs(records, old) ==
    [EmptyFs EXCEPT ![<<"w">>] = DirNode,
                    ![<<"w", "a.shp">>] = ShpNode(records),
                    ![<<"w", "b.shp">>] = ShpNode(<<"pt", "null">>),
                    ![<<"w", "d.shp">>] = DirNode,
                    ![<<"w", "o.json">>] = old]

NoCall ==
    [op |-> "none", in_shp |-> NoOut, out_geojson |-> NoOut, outcome |-> "none",
     ret |-> <<>>, reader |-> FALSE, inNode |-> AbsentNode, prev |-> AbsentNode,
     parentWas |-> "", outFree |-> FALSE, touched |-> {}]

NoMapCall ==
    [op |-> "none", outcome |-> "none", before |-> <<>>, reqBefore |-> 0,
     argt |-> "", missing |-> FALSE, style |-> NoStyle, layer_name |-> "",
     ee |-> ""]

NoLayers == [given |-> FALSE, val |-> <<>>]
GivenLayers(ls) == [given |-> TRUE, val |-> ls]

Kwargs ==
    { [google_map |-> "ROADMAP", layers |-> NoLayers],
      [google_map |-> "HYBRID", layers |-> NoLayers],
      [google_map |-> "TERRAIN", layers |-> GivenLayers(<<>>)] }

DefaultKwargs == [google_map |-> "ROADMAP", layers |-> NoLayers]

InitMapVars(kw) ==
    /\ kwargs = kw
    /\ layers = MapInit(kw)
    /\ ctorLayers = MapInit(kw)
    /\ calls = 0
    /\ okCalls = 0
    /\ unnamed = {}
    /\ mapIdRequests = 0
    /\ lastMapCall = NoMapCall

InitConv ==
    /\ \E records \in Datasets : fs = BaseFs(records, TextNode(<<"{", "old", "}">>))
    /\ lastCall = NoCall
    /\ results = {}
    /\ InitMapVars(DefaultKwargs)

InitMap ==
    /\ fs = BaseFs(<<"null", "pt">>, TextNode(Serialize(GeoInterface(<<"pt">>)).text))
    /\ lastCall = NoCall
    /\ results = {}
    /\ \E kw \in Kwargs : InitMapVars(kw)

(***************************************************************************)
(* Actions.                                                                *)
(***************************************************************************)
InArgs ==
    { Rel(<<"a.shp">>), Abs(<<"w", "b.shp">>), Rel(<<"d.shp">>),
      Rel(<<"missing.shp">>) }

ShpArgs == { Rel(<<"a.shp">>), Rel(<<"d.shp">>), Rel(<<"missing.shp">>) }

OutArgs ==
    { NoOut, Rel(<<"o.json">>), Abs(<<"w", "x", "y", "o.json">>),
      Abs(<<"w", "b.shp", "o.json">>), Rel(<<"d.shp">>), Rel(<<"a.shp">>) }

\* The proper ancestors of an absolute path.
Ancestors(p) == {SubSeq(p, 1, k) : k \in 1..(Len(p) - 1)}

\* The paths whose node differs between two file systems, each with the
\* kind of node it had in the first.
Touched(before, after) ==
    {[path |-> p, was |-> before[p].kind] : p \in {q \in Paths : after[q] # before[q]}}

\* Nothing in the way of writing to out: no component of it is a file and
\* it is no directory itself.
OutFree(f, out) ==
    /\ \A a \in Ancestors(out) : NodeAt(f, a).kind \in {"dir", "absent"}
    /\ NodeAt(f, out).kind # "dir"

ShpToGeojson ==
    \E in_shp \in InArgs, out_geojson \in OutArgs :
        LET r == shp_to_geojson(fs, in_shp, out_geojson)
            src == Abspath(in_shp)
            out == Abspath(out_geojson)
            given == ~out_geojson.none
        IN  /\ fs' = r.fs
            /\ lastCall' =
                   [op |-> "shp_to_geojson", in_shp |-> in_shp,
                    out_geojson |-> out_geojson, outcome |-> r.outcome,
                    ret |-> r.ret, reader |-> r.reader,
                    inNode |-> NodeAt(fs, src),
                    prev |-> IF given THEN NodeAt(fs, out) ELSE AbsentNode,
                    parentWas |-> IF given THEN NodeAt(fs, Dirname(out)).kind ELSE "",
                    outFree |-> given /\ OutFree(fs, out),
                    touched |-> Touched(fs, r.fs)]
            /\ results' =
                   IF r.outcome = "ok"
                   THEN results \cup {[src |-> src, body |-> NodeAt(fs, src).body,
                                       written |-> ~out_geojson.none, ret |-> r.ret]}
                   ELSE results
            /\ UNCHANGED mapVars

GeojsonArgs ==
    { PathArg(Rel(<<"o.json">>)), PathArg(Rel(<<"missing.shp">>)),
      PathArg(Rel(<<"b.shp">>)), PathArg(Rel(<<"d.shp">>)),
      DictArg(<<"{", "type", "FeatureCollection", "features", "[", "]", "}">>),
      OtherArg }

StyleArgs ==
    { NoStyle, Style({}), Style({<<"color", "#ff0000">>, <<"weight", "5">>}) }

LayerNames == {"Untitled", "roads"}

\* The record of a call; the style and the name are kept of a call that
\* handed them to the widget.
MapCall(op, outcome, argt, missing, style, layer_name, ee) ==
    [op |-> op, outcome |-> outcome, before |-> layers, reqBefore |-> mapIdRequests,
     argt |-> argt, missing |-> missing,
     style |-> IF outcome = "ok" THEN style ELSE NoStyle,
     layer_name |-> IF outcome = "ok" THEN layer_name ELSE "",
     ee |-> ee]

\* The bookkeeping common to add_geojson and add_shapefile.
Added(r, layer_name) ==
    /\ layers' = r.layers
    /\ calls' = calls + 1
    /\ okCalls' = IF r.outcome = "ok" THEN okCalls + 1 ELSE okCalls
    /\ unnamed' = IF r.outcome = "ok" /\ layer_name = "Untitled"
                  THEN unnamed \cup {Len(r.layers)} ELSE unnamed
    /\ UNCHANGED <<convVars, kwargs, ctorLayers, mapIdRequests>>

AddGeojson ==
    /\ calls < MaxCalls
    /\ \E in_geojson \in GeojsonArgs, style \in StyleArgs,
          layer_name \in LayerNames, rnd \in RandomStrings :
           LET r == add_geojson(fs, layers, in_geojson, style, layer_name, rnd)
           IN  /\ Added(r, layer_name)
               /\ lastMapCall' =
                      MapCall("add_geojson", r.outcome, in_geojson.t,
                              in_geojson.t = "str"
                                  /\ ~Exists(fs, Abspath(in_geojson.path)),
                              style, layer_name, "")

AddShapefile ==
    /\ calls < MaxCalls
    /\ \E in_shp \in ShpArgs, style \in StyleArgs,
          layer_name \in LayerNames, rnd \in RandomStrings :
           LET r == add_shapefile(fs, layers, in_shp, style, layer_name, rnd)
           IN  /\ Added(r, layer_name)
               /\ lastMapCall' =
                      MapCall("add_shapefile", r.outcome, "str",
                              ~Exists(fs, Abspath(in_shp)), style, layer_name, "")

EeNames == {"dem"}

AddEeLayer ==
    /\ calls < MaxCalls
    /\ \E ee_object \in EeObjects, name \in EeNames, remote \in {"ok", "error"} :
           LET r == add_ee_layer(layers, ee_object, name, remote, mapIdRequests)
           IN  /\ layers' = r.layers
               /\ calls' = calls + 1
               /\ okCalls' = IF r.outcome = "ok" THEN okCalls + 1 ELSE okCalls
               /\ mapIdRequests' = r.requests
               /\ lastMapCall' =
                      MapCall("add_ee_layer", r.outcome, "", FALSE, NoStyle, name,
                              ee_object)
               /\ UNCHANGED <<convVars, kwargs, ctorLayers, unnamed>>

EeTileLayer ==
    /\ calls < MaxCalls
    /\ \E ee_object \in EeObjects, name \in EeNames, remote \in {"ok", "error"} :
           LET r == ee_tile_layer(ee_object, name, remote, mapIdRequests)
           IN  /\ mapIdRequests' = r.requests
               /\ calls' = calls + 1
               /\ lastMapCall' =
                      MapCall("ee_tile_layer", r.outcome, "", FALSE, NoStyle, name,
                              ee_object)
               /\ UNCHANGED <<convVars, kwargs, layers, ctorLayers, okCalls, unnamed>>

NextConv == ShpToGeojson

NextMap == AddGeojson \/ AddShapefile \/ AddEeLayer \/ EeTileLayer

SpecConv == InitConv /\ [][NextConv]_vars

SpecMap == InitMap /\ [][NextMap]_vars


(***************************************************************************)
(* The claims.                                                             *)
(***************************************************************************)
Called == lastCall.op = "shp_to_geojson"
OutGiven == Called /\ ~lastCall.out_geojson.none
OutPath == Abspath(lastCall.out_geojson)
Succeeded == Called /\ lastCall.outcome = "ok"

\* C1 (as stated): a call whose input path is not an existing file raises
\* FileNotFoundError before the shapefile reader is invoked and leaves the
\* file system as it was.
C1_NotAFileRaisesNotFound ==
    (Called /\ lastCall.inNode.kind \notin {"shp", "text"})
        => /\ lastCall.outcome = "FileNotFoundError"
           /\ ~lastCall.reader
           /\ lastCall.touched = {}

\* C2 (as stated): after a successful call with an output path, the file at
\* that path parses as JSON to a value equal to the value the call returned.
C2_ParsedEqualsReturned ==
    (Succeeded /\ OutGiven)
        => /\ Parse(fs[OutPath]).ok
           /\ Parse(fs[OutPath]).value = lastCall.ret

\* C2 (amended): a call with a readable, encodable shapefile and nothing in
\* the way of the output path succeeds, missing parent directories or not;
\* after a successful call the file at the output path parses as JSON to
\* the returned value with its tuples read as lists.
C2_ParsedEqualsReturnedAsLists ==
    /\ (Called /\ lastCall.outFree /\ lastCall.inNode.kind = "shp"
            /\ FirstBad(GeoInterface(lastCall.inNode.body)) = 0)
           => Succeeded
    /\ (Succeeded /\ OutGiven)
           => /\ fs[OutPath].kind = "text"
              /\ Parse(fs[OutPath]).ok
              /\ Parse(fs[OutPath]).value = AsLists(lastCall.ret)

\* C2 witness: a successful call created the parent directories of its
\* output file and returned a value holding a tuple.
C2_Witness ==
    /\ Succeeded /\ OutGiven
    /\ lastCall.parentWas = "absent"
    /\ \E i \in 1..Len(lastCall.ret) : lastCall.ret[i] = "("

\* C3: after a successful call with an output path the content of the file
\* is exactly the text that call encoded: nothing is left of what the file
\* held before.
C3_OverwritesNotAppends ==
    (Succeeded /\ OutGiven)
        => /\ fs[OutPath].kind = "text"
           /\ fs[OutPath].body = [i \in 1..Len(lastCall.ret) |-> JsonToken(lastCall.ret[i])]

\* C3 witness: the call wrote over the text an earlier call, of another
\* shapefile, had written to the same path.
C3_Witness ==
    /\ Succeeded /\ OutGiven
    /\ lastCall.prev.kind = "text"
    /\ lastCall.prev.body # <<"{", "old", "}">>
    /\ lastCall.prev.body # fs[OutPath].body

\* C4: any two successful calls on the same unchanged shapefile returned the
\* same value, with the same JSON encoding, output path or not.
C4_Deterministic ==
    \A r1, r2 \in results :
        (r1.src = r2.src /\ r1.body = r2.body)
            => /\ r1.ret = r2.ret
               /\ Serialize(r1.ret).text = Serialize(r2.ret).text

\* C4 witness: the same shapefile was converted once with and once without
\* an output path, and its features hold tuples.
C4_Witness ==
    \E r1, r2 \in results :
        /\ r1.src = r2.src /\ r1.body = r2.body
        /\ r1.written /\ ~r2.written
        /\ \E i \in 1..Len(r1.ret) : r2.ret[i] = "("

\* C5 (as stated): a call with an output path changes nothing but the file
\* at that path, and a call without one changes nothing.
C5_OnlyTheOutputFile ==
    Called => \A t \in lastCall.touched : OutGiven /\ t.path = OutPath

\* C5 (amended): a call without an output path changes nothing; a call with
\* one changes nothing but the file at that path and the directories above
\* it that were missing, which it creates. This holds of failed calls too.
C5_OnlyOutputAndMissingParents ==
    Called =>
        \A t \in lastCall.touched :
            /\ OutGiven
            /\ \/ t.path = OutPath /\ fs[t.path].kind = "text"
               \/ /\ t.path \in Ancestors(OutPath)
                  /\ t.was = "absent"
                  /\ fs[t.path] = DirNode

\* C5 witness: a call failed while encoding, having created directories
\* and left a partly written file.
C5_Witness ==
    /\ OutGiven /\ lastCall.outcome = "TypeError"
    /\ \E t \in lastCall.touched : t.path \in Ancestors(OutPath)
    /\ \E t \in lastCall.touched : t.path = OutPath

MapAdded == lastMapCall.op \in {"add_geojson", "add_shapefile"}
                /\ lastMapCall.outcome = "ok"

\* C6: the style of a layer added by add_geojson or add_shapefile is the
\* fixed default when the caller gave none and the caller's own otherwise.
C6_StyleDefaultOrOverride ==
    MapAdded =>
        layers[Len(layers)].style =
            IF lastMapCall.style.none
            THEN { <<"stroke", "True">>, <<"color", "#000000">>, <<"weight", "2">>,
                   <<"opacity", "1">>, <<"fill", "True">>,
                   <<"fillColor", "#0000ff">>, <<"fillOpacity", "0.4">> }
            ELSE lastMapCall.style.val

\* C6 witness: add_shapefile added a layer with a caller's style of two
\* properties, after a layer that got the default.
C6_Witness ==
    /\ MapAdded /\ lastMapCall.op = "add_shapefile"
    /\ ~lastMapCall.style.none /\ lastMapCall.style.val # {}
    /\ Len(lastMapCall.before) > Len(ctorLayers)
    /\ lastMapCall.before[Len(lastMapCall.before)].style = DefaultStyle

\* C7 (as stated): no two layers added without a name have the same name.
C7_UnnamedLayersDistinct ==
    \A i, j \in unnamed : i # j => layers[i].name # layers[j].name

\* C7 (amended): every layer added without a name is named "Untitled_"
\* followed by a random suffix, never the bare sentinel.
C7_UnnamedLayersSuffixed ==
    \A i \in unnamed :
        /\ layers[i].name # "Untitled"
        /\ \E sfx \in RandomStrings : layers[i].name = "Untitled_" \o sfx

\* C7 witness: two layers were added without a name.
C7_Witness == Cardinality(unnamed) >= 2

\* C8: add_geojson raises TypeError for an argument that is neither a path
\* nor a dict, FileNotFoundError for a path at which nothing exists; either
\* way the map's layers are as they were.
C8_InvalidInputAddsNothing ==
    (lastMapCall.op = "add_geojson")
        => /\ (lastMapCall.argt \notin {"str", "dict"})
                  => (lastMapCall.outcome = "TypeError" /\ layers = lastMapCall.before)
           /\ (lastMapCall.argt = "str" /\ lastMapCall.missing)
                  => (lastMapCall.outcome = "FileNotFoundError"
                          /\ layers = lastMapCall.before)

\* C8 witness: add_geojson was handed something that is no path and no
\* dict, on a map a layer had been added to.
C8_Witness ==
    /\ lastMapCall.op = "add_geojson"
    /\ lastMapCall.argt = "other"
    /\ okCalls >= 1

\* C9: ee_tile_layer raises for an object of none of the five Earth Engine
\* types without a getMapId request, and add_ee_layer then adds no layer.
C9_UnsupportedTypeBeforeRequest ==
    (lastMapCall.op \in {"ee_tile_layer", "add_ee_layer"}
         /\ lastMapCall.ee \notin {"Image", "ImageCollection", "Feature",
                                   "FeatureCollection", "Geometry"})
        => /\ lastMapCall.outcome = "AttributeError"
           /\ mapIdRequests = lastMapCall.reqBefore
           /\ layers = lastMapCall.before

\* C9 witness: add_ee_layer was handed an unsupported object after a
\* request had been made for a supported one.
C9_Witness ==
    /\ lastMapCall.op = "add_ee_layer"
    /\ lastMapCall.ee = "str"
    /\ mapIdRequests >= 1

\* C10 (as stated): a constructed Map holds one layer, and afterwards one
\* plus the number of successful add_* calls.
C10_OneLayerPlusCalls ==
    /\ Len(ctorLayers) = 1
    /\ Len(layers) = 1 + okCalls

\* C10 (amended): a constructed Map holds the layers ipyleaflet.Map
\* installed (the caller's, by default the one basemap) and after them the
\* Google layer named for google_map; afterwards its layers are those, in
\* place, followed by one layer per successful add_* call.
C10_CtorLayersPlusCalls ==
    /\ Len(ctorLayers) =
           (IF kwargs.layers.given THEN Len(kwargs.layers.val) ELSE 1) + 1
    /\ ctorLayers[Len(ctorLayers)].name =
           (IF kwargs.google_map = "HYBRID" THEN "Google Satellite" ELSE "Google Maps")
    /\ Len(layers) = Len(ctorLayers) + okCalls
    /\ SubSeq(layers, 1, Len(ctorLayers)) = ctorLayers
    /\ lastMapCall.op # "none"
           => /\ SubSeq(layers, 1, Len(lastMapCall.before)) = lastMapCall.before
              /\ Len(layers) = Len(lastMapCall.before)
                     + (IF lastMapCall.outcome = "ok" /\ lastMapCall.op # "ee_tile_layer"
                        THEN 1 ELSE 0)

\* C10 witness: two calls added a layer each to a map constructed with
\* the default basemap.
C10_Witness ==
    /\ okCalls = 2
    /\ Len(ctorLayers) = 2
    /\ lastMapCall.op = "add_ee_layer"

====
